---- MODULE Spec2Model ----
(***************************************************************************)
(* Yandex entry points of the SERP client (sync and async), the Poller     *)
(* they start, the result-forwarding task and the caller of the returned   *)
(* channel.  Each request r of Reqs is one call of one entry point.        *)
(***************************************************************************)
EXTENDS Integers, Sequences, FiniteSets, TLC

\* ------------------------------------------------------------------ bounds
MaxPolls == 4       \* status-query / pending counters saturate here

\* Two calls, which may run concurrently; a claim about one call is about
\* call 1 alone (Spec), a claim about two calls is about both (PairSpec).
Reqs == {1, 2}

Min(a, b) == IF a < b THEN a ELSE b
Sat(n) == Min(n + 1, MaxPolls)

\* ------------------------------------------------------------ error values
\* A Go error value; job names the job a Poller error was produced for.
Err(e, j) == [e |-> e, job |-> j]
Nil == Err("nil", 0)

\* ------------------------------------------------------- internal/utils.go
RECURSIVE InList(_, _)
InList(val, list) ==
  IF list = <<>> THEN FALSE
  ELSE IF Head(list) = val THEN TRUE
  ELSE InList(val, Tail(list))

\* strings.Contains on strings written as tuples of characters
Contains(s, sub) ==
  \E i \in 0..(Len(s) - Len(sub)) :
     \A k \in 1..Len(sub) : s[i + k] = sub[k]

YANDEX == <<"y", "a", "n", "d", "e", "x">>

\* A URL argument: its text is empty or not, and what url.ParseRequestURI
\* makes of it (an error, or a scheme and a host).
Url(empty, parseOk, scheme, host) ==
  [empty |-> empty, parseOk |-> parseOk, scheme |-> scheme, host |-> host]

Urls ==
  { Url(TRUE,  FALSE, "", <<>>),                                    \* ""
    Url(FALSE, FALSE, "", <<>>),                                    \* "yandex.ru"
    Url(FALSE, TRUE,  "", <<>>),                                    \* "/search"
    Url(FALSE, TRUE,  "https", <<>>),                               \* "https:///search"
    Url(FALSE, TRUE,  "https", <<"g", "o", ".", "r", "u">>),        \* "https://go.ru"
    Url(FALSE, TRUE,  "https", <<"y", "a", "n", "d", "e">>),        \* "https://yande"
    Url(FALSE, TRUE,  "https", <<"y", "a", "n", "d", "e", "x", ".", "r", "u">>),
    Url(FALSE, TRUE,  "https", <<"x", "y", "a", "n", "d", "e", "x", ".", "i", "o">>) }

\* all of them but "https://xyandex.io"
PairUrls == { u \in Urls : u.host = <<>> \/ Head(u.host) # "x" }

\* variant: the host is looked at before the scheme
ValidateUrl_HostFirst(inputUrl, host) ==
  IF inputUrl.empty THEN Err("URL parameter is empty", 0)
  ELSE IF ~inputUrl.parseOk THEN Err("failed to parse URL", 0)
  ELSE IF inputUrl.host = <<>> THEN Err("URL is missing a host", 0)
  ELSE IF inputUrl.scheme = "" THEN Err("URL is missing scheme", 0)
  ELSE IF ~Contains(inputUrl.host, host) THEN Err("URL does not belong to host", 0)
  ELSE Nil

ValidateUrl(inputUrl, host) ==
  IF inputUrl.empty THEN Err("URL parameter is empty", 0)
  ELSE IF ~inputUrl.parseOk THEN Err("failed to parse URL", 0)
  ELSE IF inputUrl.scheme = "" THEN Err("URL is missing scheme", 0)
  ELSE IF inputUrl.host = <<>> THEN Err("URL is missing a host", 0)
  ELSE IF ~Contains(inputUrl.host, host) THEN Err("URL does not belong to host", 0)
  ELSE Nil

\* ------------------------------------------------------ option validation
YandexSearchAcceptedDomainParameters == <<"com", "ru", "ua", "by", "kz", "tr">>
YandexSearchAcceptedLocaleParameters ==
  <<"en", "ru", "by", "de", "fr", "id", "kk", "tt", "tr", "uk">>

\* Options as they are after the defaults were set.  UserAgentValid and
\* RenderValid are the verdicts of oxylabs.IsUserAgentValid / IsRenderValid,
\* ParseInstructions is "nil", "valid" or "invalid" (the verdict of
\* oxylabs.ValidateParseInstructions on a non-nil document).
SearchOpts ==
  { [Domain |-> d, Locale |-> l, UserAgentValid |-> u,
     Limit |-> t[1], Pages |-> t[2], StartPage |-> t[3], ParseInstructions |-> p] :
      d \in {"com", "de"}, l \in {"", "en", "zz"}, u \in BOOLEAN,
      t \in {<<1, 1, 1>>, <<0, 1, 1>>, <<1, 0, 1>>, <<1, 1, -1>>},
      p \in {"nil", "valid", "invalid"} }

UrlOpts ==
  [UserAgentValid : BOOLEAN, Render : {"", "html", "bad"},
   ParseInstructions : {"nil", "valid", "invalid"}]

IsRenderValid(render) == render \in {"html", "png"}

YandexSearchOpts_checkParameterValidity(opt) ==
  IF ~InList(opt.Domain, YandexSearchAcceptedDomainParameters)
    THEN Err("invalid domain parameter", 0)
  ELSE IF opt.Locale # "" /\ ~InList(opt.Locale, YandexSearchAcceptedLocaleParameters)
    THEN Err("invalid locale parameter", 0)
  ELSE IF ~opt.UserAgentValid
    THEN Err("invalid user agent parameter", 0)
  ELSE IF opt.Limit <= 0 \/ opt.Pages <= 0 \/ opt.StartPage <= 0
    THEN Err("limit, pages and start_page parameters must be greater than 0", 0)
  ELSE IF opt.ParseInstructions # "nil" /\ opt.ParseInstructions = "invalid"
    THEN Err("invalid parse instructions", 0)
  ELSE Nil

YandexUrlOpts_checkParameterValidity(opt) ==
  IF ~opt.UserAgentValid
    THEN Err("invalid user agent parameter", 0)
  ELSE IF opt.Render # "" /\ ~IsRenderValid(opt.Render)
    THEN Err("invalid render parameter", 0)
  ELSE IF opt.ParseInstructions # "nil" /\ opt.ParseInstructions = "invalid"
    THEN Err("invalid parse instructions", 0)
  ELSE Nil

\* ------------------------------------------------------------------ values
Kinds == {"SyncSearch", "SyncUrl", "AsyncSearch", "AsyncUrl"}

\* *http.Response: body names the submission the remote produced it for
HttpResp(b) == [body |-> b]
NilHttpResp == HttpResp(0)

\* *Resp
Resp(b, parse, custom) == [body |-> b, parse |-> parse, custom |-> custom]
NilResp == Resp(0, FALSE, FALSE)

\* the marshalled payload, reduced to its source and its parsing fields
Payload(source, parse, instructions) ==
  [source |-> source, parse |-> parse, parsing_instructions |-> instructions]
NoPayload == Payload("", FALSE, FALSE)

\* the url argument of a call that has none
NoUrl == Url(TRUE, FALSE, "", <<>>)

\* opt.PollInterval, in seconds, and the default the Poller applies
PollIntervals == {-1, 0, 2}
DefaultPollInterval == 5
SetDefaultPollInterval(i) == IF i <= 0 THEN DefaultPollInterval ELSE i

\* make(chan T): channels are values of a heap shared by all calls; 0 is nil
NilChan == 0
ChansPerCall == 3
Chans == 1..(ChansPerCall * Cardinality(Reqs))

\* variant: the channels belong to the client, not to the call
MakeChan_Shared(r, k) == k

\* the k-th channel made by call r
MakeChan(r, k) == ChansPerCall * (r - 1) + k

VARIABLES
  call,     \* call[r]: frame of the entry point called for request r
  ctx,      \* ctx[r]: the context handed to call r, "active" or "done"
  poller,   \* poller[r]: frame of the PollJobStatus task started by call r
  fwd,      \* fwd[r]: frame of the forwarding task started by call r
  caller,   \* caller[r]: the caller of call r, receiving from the channel
  sent      \* sent[c]: number of sends completed on channel c

vars == <<call, ctx, poller, fwd, caller, sent>>

\* norm records whether GetResp succeeded ("ok") or failed ("error");
\* wrapper says that the call was made through the default-timeout entry
\* point (ScrapeYandexSearch / ScrapeYandexUrl), which owns the context
InitCall ==
  [pc |-> "idle", kind |-> "none", wrapper |-> FALSE, url |-> NoUrl,
   pollInterval |-> 0, customParserFlag |-> FALSE,
   jsonPayload |-> NoPayload, jobID |-> 0,
   httpRespChan |-> NilChan, respChan |-> NilChan, errChan |-> NilChan,
   netOps |-> 0, errFrom |-> 0, httpFrom |-> 0, norm |-> "none",
   retResp |-> NilResp, retChan |-> NilChan, retErr |-> Nil]

\* ctx is the call whose context the task was given (0: none); interval
\* is the poll interval, waited the period of the last tick; queries and
\* fetches count the requests the task issued; last, pendings and fetched
\* record what the remote service answered
InitPoller ==
  [pc |-> "none", state |-> "None", ctx |-> 0, jobID |-> 0,
   interval |-> 0, waited |-> 0,
   httpRespChan |-> NilChan, errChan |-> NilChan,
   err |-> Nil, httpResp |-> NilHttpResp,
   queries |-> 0, fetches |-> 0,
   last |-> "none", pendings |-> 0, fetched |-> "none"]

InitFwd == [pc |-> "none", resp |-> NilResp, ch |-> NilChan]

InitCaller == [pc |-> "none", got |-> NilResp, from |-> 0]

Init ==
  /\ call = [r \in Reqs |-> InitCall]
  /\ ctx = [r \in Reqs |-> "active"]
  /\ poller = [r \in Reqs |-> InitPoller]
  /\ fwd = [r \in Reqs |-> InitFwd]
  /\ caller = [r \in Reqs |-> InitCaller]
  /\ sent = [c \in Chans |-> 0]

\* return resp/ch, err
Return(c, resp, ch, err) ==
  [c EXCEPT !.pc = "returned", !.retResp = resp, !.retChan = ch, !.retErr = err]

\* ------------------------------------------------ collaborators (not here)
\* normalize(rawHttpResponse, wantsParsedContent, wantsCustomParser)
GetResp(httpResp, parse, custom) == Resp(httpResp.body, parse, custom)

\* the job identifier the remote service returns for the submission of r
GetJobID(r) == r

\* ---------------------------------------------------------- sync client
\* entry up to the transport request: validation, payload, marshal, Req
SyncEnter(c, kind, verr, flag, marshalOk) ==
  IF verr # Nil THEN Return([c EXCEPT !.kind = kind], NilResp, NilChan, verr)
  ELSE IF ~marshalOk
    THEN Return([c EXCEPT !.kind = kind, !.customParserFlag = flag],
                NilResp, NilChan, Err("error marshalling payload", 0))
  ELSE [c EXCEPT !.kind = kind, !.customParserFlag = flag,
                 !.jsonPayload = Payload(IF kind = "SyncSearch" THEN "yandex_search"
                                         ELSE "yandex", flag, flag),
                 !.pc = "req", !.netOps = @ + 1]

\* defer cancel() of the default-timeout entry point: it runs when the Ctx
\* entry point it called has returned
DeferCancel(r) ==
  ctx' = IF call'[r].pc = "returned" /\ call'[r].wrapper
           THEN [ctx EXCEPT ![r] = "done"] ELSE ctx

\* W: whether the call may come through the default-timeout entry point
SyncSearchCall(r, W) ==
  /\ call[r].pc = "idle"
  /\ \E opt \in SearchOpts, marshalOk \in BOOLEAN, w \in W :
       LET flag == opt.ParseInstructions # "nil" IN
       /\ (~flag => marshalOk)
       /\ call' = [call EXCEPT ![r] =
            SyncEnter([@ EXCEPT !.wrapper = w], "SyncSearch",
                      YandexSearchOpts_checkParameterValidity(opt), flag, marshalOk)]
  /\ DeferCancel(r)
  /\ UNCHANGED <<poller, fwd, caller, sent>>

SerpClient_ScrapeYandexSearchCtx(r) == SyncSearchCall(r, BOOLEAN)

\* U: the url arguments
SyncUrlCall(r, U, W) ==
  /\ call[r].pc = "idle"
  /\ \E url \in U, opt \in UrlOpts, marshalOk \in BOOLEAN, w \in W :
       LET flag == opt.ParseInstructions # "nil"
           uerr == ValidateUrl(url, YANDEX)
           verr == IF uerr # Nil THEN uerr
                   ELSE YandexUrlOpts_checkParameterValidity(opt) IN
       /\ (~flag => marshalOk)
       /\ call' = [call EXCEPT ![r] =
            SyncEnter([@ EXCEPT !.wrapper = w, !.url = url], "SyncUrl", verr,
                      flag, marshalOk)]
  /\ DeferCancel(r)
  /\ UNCHANGED <<poller, fwd, caller, sent>>

SerpClient_ScrapeYandexUrlCtx(r) == SyncUrlCall(r, Urls, BOOLEAN)

\* c.C.Req returns; GetResp; return
SyncReqReturn(r) ==
  /\ call[r].pc = "req"
  /\ \E reqOk \in BOOLEAN, respOk \in BOOLEAN :
       /\ (~reqOk => respOk)
       /\ call' = [call EXCEPT ![r] =
            IF ~reqOk THEN Return(@, NilResp, NilChan, Err("TransportError", 0))
            ELSE IF ~respOk THEN Return(@, NilResp, NilChan, Err("RespError", 0))
            ELSE Return(@, GetResp(HttpResp(r), @.customParserFlag, @.customParserFlag),
                        NilChan, Nil)]
  /\ DeferCancel(r)
  /\ UNCHANGED <<poller, fwd, caller, sent>>

\* --------------------------------------------------------- async client
\* variant: the task is given a context that never ends
StartPoller_Background(c, jobID, pollInterval, httpRespChan, errChan) ==
  [pc |-> "start", state |-> "Submitted", ctx |-> 0, jobID |-> jobID,
   interval |-> pollInterval, waited |-> 0,
   httpRespChan |-> httpRespChan, errChan |-> errChan,
   err |-> Nil, httpResp |-> NilHttpResp, queries |-> 0, fetches |-> 0,
   last |-> "none", pendings |-> 0, fetched |-> "none"]

\* variant: the poll interval of the options is not handed over
StartPoller_NoInterval(c, jobID, pollInterval, httpRespChan, errChan) ==
  [pc |-> "start", state |-> "Submitted", ctx |-> c, jobID |-> jobID,
   interval |-> 0, waited |-> 0,
   httpRespChan |-> httpRespChan, errChan |-> errChan,
   err |-> Nil, httpResp |-> NilHttpResp, queries |-> 0, fetches |-> 0,
   last |-> "none", pendings |-> 0, fetched |-> "none"]

\* go c.C.PollJobStatus(ctx, jobID, opt.PollInterval, httpRespChan, errChan)
StartPoller(c, jobID, pollInterval, httpRespChan, errChan) ==
  [InitPoller EXCEPT !.pc = "start", !.state = "Submitted", !.ctx = c,
                     !.jobID = jobID, !.interval = pollInterval,
                     !.httpRespChan = httpRespChan, !.errChan = errChan]

\* variant: the channel is buffered, the forwarding task is done at once
StartFwd_Buffered(resp, respChan) == [pc |-> "exit", resp |-> resp, ch |-> respChan]

\* go func() { respChan <- resp }()
StartFwd(resp, respChan) == [pc |-> "send", resp |-> resp, ch |-> respChan]

\* variant: the job is submitted before the options are validated
AsyncEnter_SubmitFirst(c, r, kind, verr, flag, marshalOk) ==
  LET c1 == [c EXCEPT !.kind = kind, !.netOps = @ + 1,
                      !.httpRespChan = MakeChan(r, 1),
                      !.respChan = MakeChan(r, 2),
                      !.errChan = MakeChan(r, 3)] IN
  IF verr # Nil THEN Return(c1, NilResp, NilChan, verr)
  ELSE IF ~marshalOk
    THEN Return([c1 EXCEPT !.customParserFlag = flag],
                NilResp, NilChan, Err("error marshalling payload", 0))
  ELSE [c1 EXCEPT !.customParserFlag = flag,
                  !.jsonPayload = IF kind = "AsyncSearch"
                                    THEN Payload("yandex_search", FALSE, flag)
                                    ELSE Payload("yandex", flag, flag),
                  !.pc = "getJobID"]

\* entry up to the job submission: channels, validation, payload, marshal,
\* GetJobID issued
AsyncEnter(c, r, kind, verr, flag, marshalOk) ==
  LET c1 == [c EXCEPT !.kind = kind,
                      !.httpRespChan = MakeChan(r, 1),
                      !.respChan = MakeChan(r, 2),
                      !.errChan = MakeChan(r, 3)] IN
  IF verr # Nil THEN Return(c1, NilResp, NilChan, verr)
  ELSE IF ~marshalOk
    THEN Return([c1 EXCEPT !.customParserFlag = flag],
                NilResp, NilChan, Err("error marshalling payload", 0))
  ELSE [c1 EXCEPT !.customParserFlag = flag,
                  !.jsonPayload = IF kind = "AsyncSearch"
                                    THEN Payload("yandex_search", FALSE, flag)
                                    ELSE Payload("yandex", flag, flag),
                  !.pc = "getJobID", !.netOps = @ + 1]

\* PI: the values of opt.PollInterval
AsyncSearchCall(r, W, PI) ==
  /\ call[r].pc = "idle"
  /\ \E opt \in SearchOpts, marshalOk \in BOOLEAN, w \in W, pi \in PI :
       LET flag == opt.ParseInstructions # "nil" IN
       /\ (~flag => marshalOk)
       /\ call' = [call EXCEPT ![r] =
            AsyncEnter([@ EXCEPT !.wrapper = w, !.pollInterval = pi], r, "AsyncSearch",
                       YandexSearchOpts_checkParameterValidity(opt), flag, marshalOk)]
  /\ DeferCancel(r)
  /\ UNCHANGED <<poller, fwd, caller, sent>>

SerpClientAsync_ScrapeYandexSearchCtx(r) == AsyncSearchCall(r, BOOLEAN, PollIntervals)

AsyncUrlCall(r, U, W, PI) ==
  /\ call[r].pc = "idle"
  /\ \E url \in U, opt \in UrlOpts, marshalOk \in BOOLEAN, w \in W, pi \in PI :
       LET flag == opt.ParseInstructions # "nil"
           uerr == ValidateUrl(url, YANDEX)
           verr == IF uerr # Nil THEN uerr
                   ELSE YandexUrlOpts_checkParameterValidity(opt) IN
       /\ (~flag => marshalOk)
       /\ call' = [call EXCEPT ![r] =
            AsyncEnter([@ EXCEPT !.wrapper = w, !.url = url, !.pollInterval = pi], r,
                       "AsyncUrl", verr, flag, marshalOk)]
  /\ DeferCancel(r)
  /\ UNCHANGED <<poller, fwd, caller, sent>>

SerpClientAsync_ScrapeYandexUrlCtx(r) == AsyncUrlCall(r, Urls, BOOLEAN, PollIntervals)

\* variant: the channel is returned as soon as the Poller is started
AfterGetJobID_NoBlock(c, r, ok) ==
  IF ~ok THEN Return(c, NilResp, NilChan, Err("SubmitError", 0))
  ELSE Return([c EXCEPT !.jobID = GetJobID(r)], NilResp, c.respChan, Nil)

\* jobID, err := c.C.GetJobID(jsonPayload) returns; on success the Poller
\* is started and the call goes on to err = <-errChan
AfterGetJobID(c, r, ok) ==
  IF ~ok THEN Return(c, NilResp, NilChan, Err("SubmitError", 0))
  ELSE [c EXCEPT !.jobID = GetJobID(r), !.pc = "recvErr"]

\* variant: the Poller is started before the submission error is looked at
PollerAfterGetJobID_GoFirst(p, c, r, ok) ==
  StartPoller(r, IF ok THEN GetJobID(r) ELSE 0, c.pollInterval, c.httpRespChan, c.errChan)

PollerAfterGetJobID(p, c, r, ok) ==
  IF ~ok THEN p
  ELSE StartPoller(r, GetJobID(r), c.pollInterval, c.httpRespChan, c.errChan)

AsyncGetJobIDReturn(r) ==
  /\ call[r].pc = "getJobID"
  /\ \E ok \in BOOLEAN :
       /\ call' = [call EXCEPT ![r] = AfterGetJobID(@, r, ok)]
       /\ poller' = [poller EXCEPT ![r] = PollerAfterGetJobID(@, call[r], r, ok)]
  /\ DeferCancel(r)
  /\ UNCHANGED <<fwd, caller, sent>>

\* variant: after a nil error the error sink is read once more
AfterRecvErr_ReadErrAgain(c, e, s) ==
  IF e # Nil THEN Return([c EXCEPT !.errFrom = s], NilResp, NilChan, e)
  ELSE [c EXCEPT !.errFrom = s]

\* variant: the error read from the error sink is not looked at
AfterRecvErr_IgnoreErr(c, e, s) == [c EXCEPT !.errFrom = s, !.pc = "recvResp"]

\* err = <-errChan; if err != nil { return nil, err }
AfterRecvErr(c, e, s) ==
  IF e # Nil THEN Return([c EXCEPT !.errFrom = s], NilResp, NilChan, e)
  ELSE [c EXCEPT !.errFrom = s, !.pc = "recvResp"]

\* the Poller once its send on the error sink was received
PollerAfterErrSent(p) ==
  IF p.err = Nil THEN [p EXCEPT !.pc = "sendResp"]
  ELSE [p EXCEPT !.pc = "exit"]

\* the receive of the call meets the send of whichever Poller is blocked
\* sending on the same (unbuffered) channel
AsyncRecvErr(r) ==
  /\ call[r].pc = "recvErr"
  /\ \E s \in Reqs :
       /\ poller[s].pc = "sendErr"
       /\ poller[s].errChan = call[r].errChan
       /\ call' = [call EXCEPT ![r] = AfterRecvErr(@, poller[s].err, s)]
       /\ poller' = [poller EXCEPT ![s] = PollerAfterErrSent(@)]
       /\ sent' = [sent EXCEPT ![call[r].errChan] = @ + 1]
  /\ DeferCancel(r)
  /\ UNCHANGED <<fwd, caller>>

\* variant: the normalizer's error is dropped
AfterRecvResp_DropErr(c, respOk, s) ==
  Return([c EXCEPT !.httpFrom = s], NilResp, c.respChan, Nil)

\* variant: the channel is returned together with the normalizer's error
AfterRecvResp_ChanWithErr(c, respOk, s) ==
  IF ~respOk THEN Return([c EXCEPT !.httpFrom = s], NilResp, c.respChan, Err("RespError", 0))
  ELSE Return([c EXCEPT !.httpFrom = s], NilResp, c.respChan, Nil)

\* httpResp := <-httpRespChan; resp, err := GetResp(...); go forward; return
AfterRecvResp(c, respOk, s) ==
  IF ~respOk THEN Return([c EXCEPT !.httpFrom = s], NilResp, NilChan, Err("RespError", 0))
  ELSE Return([c EXCEPT !.httpFrom = s], NilResp, c.respChan, Nil)

\* variant: the channel is returned but nothing is forwarded into it
FwdAfterRecvResp_NoForward(f, c, httpResp, respOk) == f

FwdAfterRecvResp(f, c, httpResp, respOk) ==
  IF ~respOk THEN f
  ELSE StartFwd(GetResp(httpResp, c.customParserFlag, c.customParserFlag), c.respChan)

AsyncRecvResp(r) ==
  /\ call[r].pc = "recvResp"
  /\ \E s \in Reqs, respOk \in BOOLEAN :
       /\ poller[s].pc = "sendResp"
       /\ poller[s].httpRespChan = call[r].httpRespChan
       /\ call' = [call EXCEPT ![r] =
            [AfterRecvResp(@, respOk, s) EXCEPT !.norm = IF respOk THEN "ok" ELSE "error"]]
       /\ fwd' = [fwd EXCEPT ![r] = FwdAfterRecvResp(@, call[r], poller[s].httpResp, respOk)]
       /\ poller' = [poller EXCEPT ![s].pc = "exit"]
       /\ sent' = [sent EXCEPT ![call[r].httpRespChan] = @ + 1]
  /\ DeferCancel(r)
  /\ UNCHANGED caller

\* ---------------------------------------------------------------- caller
\* the caller starts to receive from the channel it was returned
CallerStartRecv(r) ==
  /\ call[r].pc = "returned"
  /\ call[r].retChan # NilChan
  /\ caller[r].pc = "none"
  /\ caller' = [caller EXCEPT ![r].pc = "recv"]
  /\ UNCHANGED <<call, ctx, poller, fwd, sent>>

\* respChan <- resp of a forwarding task meets the caller's receive
CallerRecv(r) ==
  /\ caller[r].pc = "recv"
  /\ \E s \in Reqs :
       /\ fwd[s].pc = "send"
       /\ fwd[s].ch = call[r].retChan
       /\ caller' = [caller EXCEPT ![r] = [pc |-> "got", got |-> fwd[s].resp, from |-> s]]
       /\ fwd' = [fwd EXCEPT ![s].pc = "exit"]
       /\ sent' = [sent EXCEPT ![call[r].retChan] = @ + 1]
  /\ UNCHANGED <<call, ctx, poller>>

\* the context of call r is cancelled or expires (at any time, also before
\* the call is made or after it returned)
CtxCancel(r) ==
  /\ ctx[r] = "active"
  /\ ctx' = [ctx EXCEPT ![r] = "done"]
  /\ UNCHANGED <<call, poller, fwd, caller, sent>>

\* ---------------------------------------------------------------- Poller
\* poll(context, jobID, interval, resultSink, errorSink):
\* Submitted -> Polling -> {Completed, Failed, Cancelled}
Statuses == {"pending", "done", "failed"}
Terminal == {"Completed", "Failed", "Cancelled"}

\* the context the task was given has been cancelled or has expired
CtxDone(p) == p.ctx # 0 /\ ctx[p.ctx] = "done"

\* 1. enter Polling
PollerStart(r) ==
  /\ poller[r].pc = "start"
  /\ poller' = [poller EXCEPT ![r].pc = "wait", ![r].state = "Polling",
                               ![r].interval = SetDefaultPollInterval(@)]
  /\ UNCHANGED <<call, ctx, fwd, caller, sent>>

\* 1./2. the timer fires: issue a status query for jobID
OnTick(p) == [p EXCEPT !.pc = "query", !.queries = Sat(@), !.waited = p.interval]

PollerTick(r) ==
  /\ poller[r].pc = "wait"
  /\ ~CtxDone(poller[r])
  /\ poller' = [poller EXCEPT ![r] = OnTick(@)]
  /\ UNCHANGED <<call, ctx, fwd, caller, sent>>

\* variant: the result is fetched on every poll
OnStatus_FetchEveryPoll(p, st) ==
  CASE st = "pending" -> [p EXCEPT !.pc = "wait", !.fetches = @ + 1]
    [] st = "done"    -> [p EXCEPT !.state = "Completed", !.pc = "fetch",
                                   !.fetches = @ + 1]
    [] st = "failed"  -> [p EXCEPT !.state = "Failed", !.pc = "sendErr",
                                   !.err = Err("JobFailedError", p.jobID)]
    [] OTHER          -> [p EXCEPT !.state = "Failed", !.pc = "sendErr",
                                   !.err = Err("TransportError", p.jobID)]

\* variant: a failed job is polled again
OnStatus_FailedPollsOn(p, st) ==
  CASE st \in {"pending", "failed"} -> [p EXCEPT !.pc = "wait"]
    [] st = "done"    -> [p EXCEPT !.state = "Completed", !.pc = "fetch",
                                   !.fetches = @ + 1]
    [] OTHER          -> [p EXCEPT !.state = "Failed", !.pc = "sendErr",
                                   !.err = Err("TransportError", p.jobID)]

\* 3./4./5. the status query completes with a status or a transport error
OnStatus(p, st) ==
  CASE st = "pending" -> [p EXCEPT !.pc = "wait"]
    [] st = "done"    -> [p EXCEPT !.state = "Completed", !.pc = "fetch",
                                   !.fetches = @ + 1]
    [] st = "failed"  -> [p EXCEPT !.state = "Failed", !.pc = "sendErr",
                                   !.err = Err("JobFailedError", p.jobID)]
    [] OTHER          -> [p EXCEPT !.state = "Failed", !.pc = "sendErr",
                                   !.err = Err("TransportError", p.jobID)]

\* what the remote service answered
Answered(p, st) ==
  [p EXCEPT !.last = st, !.pendings = IF st = "pending" THEN Sat(@) ELSE @]

PollerStatus(r) ==
  /\ poller[r].pc = "query"
  /\ ~CtxDone(poller[r])
  /\ \E st \in Statuses \cup {"error"} :
       poller' = [poller EXCEPT ![r] = Answered(OnStatus(@, st), st)]
  /\ UNCHANGED <<call, ctx, fwd, caller, sent>>

\* 4./5. the result fetch completes
OnFetch(p, ok) ==
  IF ok THEN [p EXCEPT !.pc = "sendErr", !.err = Nil, !.httpResp = HttpResp(p.jobID)]
  ELSE [p EXCEPT !.state = "Failed", !.pc = "sendErr",
                 !.err = Err("TransportError", p.jobID)]

PollerFetch(r) ==
  /\ poller[r].pc = "fetch"
  /\ \E ok \in BOOLEAN :
       poller' = [poller EXCEPT ![r] =
                    [OnFetch(@, ok) EXCEPT !.fetched = IF ok THEN "ok" ELSE "error"]]
  /\ UNCHANGED <<call, ctx, fwd, caller, sent>>

\* variant: the task stops on cancellation without a word
OnCancel_Silent(p) == [p EXCEPT !.state = "Cancelled", !.pc = "exit"]

\* 6. the context is cancelled or expires before a terminal state
OnCancel(p) ==
  [p EXCEPT !.state = "Cancelled", !.pc = "sendErr", !.err = Err("CancellationError", 0)]

PollerCancel(r) ==
  /\ poller[r].pc \in {"wait", "query"}
  /\ CtxDone(poller[r])
  /\ poller' = [poller EXCEPT ![r] = OnCancel(@)]
  /\ UNCHANGED <<call, ctx, fwd, caller, sent>>

\* ------------------------------------------------------------------ system
\* the steps of the tasks of call r: network round trips complete, timers
\* fire, runnable goroutines run, matched sends and receives meet
Progress(r) ==
  \/ SyncReqReturn(r)
  \/ AsyncGetJobIDReturn(r)
  \/ AsyncRecvErr(r)
  \/ AsyncRecvResp(r)
  \/ PollerStart(r)
  \/ PollerTick(r)
  \/ PollerStatus(r)
  \/ PollerFetch(r)
  \/ PollerCancel(r)
  \/ CallerRecv(r)

\* what the environment decides: which entry point is called with what,
\* whether the caller receives, when the context ends
Environment(r) ==
  \/ SerpClient_ScrapeYandexSearchCtx(r)
  \/ SerpClient_ScrapeYandexUrlCtx(r)
  \/ SerpClientAsync_ScrapeYandexSearchCtx(r)
  \/ SerpClientAsync_ScrapeYandexUrlCtx(r)
  \/ CallerStartRecv(r)
  \/ CtxCancel(r)

Step(r) == Progress(r) \/ Environment(r)

\* one call
Next == \E r \in {1} : Step(r)

Spec == Init /\ [][Next]_vars

\* the scheduler runs every task that can take a step
FairSpec == Spec /\ WF_vars(Progress(1))

\* ... and the supplied context eventually cancels or expires
FairCancelSpec == FairSpec /\ WF_vars(CtxCancel(1))

\* two calls, interleaved in any way; both are made through the Ctx entry
\* points with the default poll interval
PairEnvironment(r) ==
  \/ SyncSearchCall(r, {FALSE})
  \/ SyncUrlCall(r, PairUrls, {FALSE})
  \/ AsyncSearchCall(r, {FALSE}, {0})
  \/ AsyncUrlCall(r, PairUrls, {FALSE}, {0})
  \/ CallerStartRecv(r)
  \/ CtxCancel(r)

PairNext == \E r \in Reqs : Progress(r) \/ PairEnvironment(r)

PairSpec == Init /\ [][PairNext]_vars

\* ================================================================= claims
AsyncKinds == {"AsyncSearch", "AsyncUrl"}
Returned(r) == call[r].pc = "returned"
AsyncReturned(r) == Returned(r) /\ call[r].kind \in AsyncKinds

\* C1: an async entry point that returns, returns either a non-nil error
\* with a nil channel or a nil error with a non-nil channel, never both and
\* never neither.
C1_ErrorXorChannel ==
  \A r \in Reqs :
    AsyncReturned(r) =>
      \/ call[r].retErr # Nil /\ call[r].retChan = NilChan
      \/ call[r].retErr = Nil /\ call[r].retChan # NilChan

\* an async call returned after its normalizer failed
C1_Witness ==
  \E r \in Reqs :
    /\ AsyncReturned(r)
    /\ call[r].retErr = Err("RespError", 0)
    /\ poller[r].state = "Completed"

\* C2: at most one value is ever written to a caller-facing channel, and a
\* caller that receives from it eventually obtains exactly one value, the
\* normalized result of its request.
C2_OneValueOnChannel ==
  /\ [](\A r \in Reqs :
          call[r].respChan # NilChan =>
            /\ sent[call[r].respChan] <= 1
            /\ caller[r].pc = "got" =>
                 /\ sent[call[r].respChan] = 1
                 /\ caller[r].got = Resp(call[r].jobID, call[r].customParserFlag,
                                         call[r].customParserFlag))
  /\ \A r \in Reqs : (caller[r].pc = "recv") ~> (caller[r].pc = "got")

\* a caller received the value of a job that was pending at least once
C2_Witness ==
  \E r \in Reqs :
    /\ caller[r].pc = "got"
    /\ sent[call[r].respChan] = 1
    /\ poller[r].pendings > 0

\* C3: when GetJobID fails the error is returned with a nil channel and no
\* Poller and no forwarding task is started: no status query, no fetch.
C3_SubmitFailureStartsNothing ==
  \A r \in Reqs :
    (Returned(r) /\ call[r].kind \in AsyncKinds /\ call[r].netOps = 1
       /\ call[r].jobID = 0) =>
      /\ call[r].retErr = Err("SubmitError", 0)
      /\ call[r].retChan = NilChan
      /\ poller[r].pc = "none" /\ poller[r].state = "None"
      /\ poller[r].queries = 0 /\ poller[r].fetches = 0
      /\ fwd[r].pc = "none"
      /\ \A c \in {call[r].httpRespChan, call[r].respChan, call[r].errChan} : sent[c] = 0

\* a submission failed
C3_Witness ==
  \E r \in Reqs :
    /\ AsyncReturned(r)
    /\ call[r].netOps = 1
    /\ call[r].retErr = Err("SubmitError", 0)

Polling(r) == poller[r].state = "Polling"
CancellationError == Err("CancellationError", 0)

\* C4: if the context ends while the Poller is Polling, the Poller issues no
\* further status query or fetch, can leave the wait at once, becomes
\* Cancelled, writes the context's error to the error sink and nothing to
\* the result sink, and the call returns that error with no channel.
C4_CancelWhilePolling ==
  /\ [][\A r \in Reqs :
          (ctx[r] = "done" /\ Polling(r)) =>
             /\ poller'[r].queries = poller[r].queries
             /\ poller'[r].fetches = poller[r].fetches
             /\ poller'[r].state \in {"Polling", "Cancelled"}]_vars
  /\ [](\A r \in Reqs :
          /\ (ctx[r] = "done" /\ Polling(r)) => ENABLED PollerCancel(r)
          /\ poller[r].state = "Cancelled" =>
               /\ poller[r].err = CancellationError
               /\ sent[poller[r].httpRespChan] = 0
               /\ poller[r].pc \in {"sendErr", "exit"}
               /\ Returned(r) => /\ call[r].retErr = CancellationError
                                 /\ call[r].retChan = NilChan)
  /\ \A r \in Reqs :
       (ctx[r] = "done" /\ Polling(r)) ~>
          (poller[r].state = "Cancelled" /\ sent[poller[r].errChan] = 1 /\ Returned(r))

\* the context ended while a status query was in flight, after a pending
\* answer, and the call returned the context's error
C4_Witness ==
  \E r \in Reqs :
    /\ poller[r].state = "Cancelled"
    /\ poller[r].queries = 2 /\ poller[r].pendings = 1
    /\ Returned(r) /\ call[r].retErr = CancellationError

\* C5: a Poller writes at most one value to each sink; one that has exited
\* has written exactly one value to the error sink; the result sink is
\* written if and only if that value is nil.
C5_OneErrorWrite ==
  \A r \in Reqs :
    poller[r].pc # "none" =>
      /\ sent[poller[r].errChan] <= 1
      /\ sent[poller[r].httpRespChan] <= 1
      /\ sent[poller[r].httpRespChan] = 1 =>
           (sent[poller[r].errChan] = 1 /\ poller[r].err = Nil)
      /\ poller[r].pc = "exit" =>
           /\ sent[poller[r].errChan] = 1
           /\ sent[poller[r].httpRespChan] = 1 <=> poller[r].err = Nil

\* a Poller has exited after a cancellation, its one error written
C5_Witness ==
  \E r \in Reqs :
    /\ poller[r].pc = "exit"
    /\ poller[r].state = "Cancelled"
    /\ sent[poller[r].errChan] = 1

\* C6: once a status query reported failed, or a status query or the fetch
\* ended in a transport error, the Poller is Failed, issues no further query
\* or fetch, writes the error to the error sink and nothing to the result
\* sink; failed on the first query means 1 query and 0 fetches.
PollerSawFailure(r) ==
  poller[r].last \in {"failed", "error"} \/ poller[r].fetched = "error"

C6_FailureStopsPolling ==
  /\ [](\A r \in Reqs :
          PollerSawFailure(r) =>
            /\ poller[r].state = "Failed"
            /\ poller[r].pc \in {"sendErr", "exit"}
            /\ poller[r].err.e =
                 (IF poller[r].last = "failed" THEN "JobFailedError" ELSE "TransportError")
            /\ sent[poller[r].httpRespChan] = 0
            /\ poller[r].pc = "exit" => sent[poller[r].errChan] = 1
            /\ (poller[r].last = "failed" /\ poller[r].pendings = 0) =>
                 (poller[r].queries = 1 /\ poller[r].fetches = 0))
  /\ [][\A r \in Reqs :
          PollerSawFailure(r) =>
            /\ poller'[r].queries = poller[r].queries
            /\ poller'[r].fetches = poller[r].fetches
            /\ poller'[r].state = "Failed"]_vars

\* the first status query reported failed and the error was written
C6_Witness ==
  \E r \in Reqs :
    /\ poller[r].last = "failed" /\ poller[r].pendings = 0
    /\ poller[r].pc = "exit"
    /\ Returned(r) /\ call[r].retErr = Err("JobFailedError", call[r].jobID)

\* C7: after n pending answers and then done, the Poller has issued n+1
\* status queries and 1 fetch, the fetch after the last query, and delivers
\* one result with a nil error.  (The counters are exact below MaxPolls.)
C7_PendingThenDone ==
  /\ [](\A r \in Reqs :
          /\ poller[r].fetches <= 1
          /\ (poller[r].last = "done" /\ poller[r].queries < MaxPolls) =>
               (poller[r].queries = poller[r].pendings + 1 /\ poller[r].fetches = 1)
          /\ (poller[r].last = "done" /\ poller[r].fetched = "ok"
                /\ poller[r].pc = "exit") =>
               /\ poller[r].err = Nil
               /\ poller[r].httpResp = HttpResp(poller[r].jobID)
               /\ sent[poller[r].errChan] = 1
               /\ sent[poller[r].httpRespChan] = 1)
  /\ [][\A r \in Reqs :
          /\ poller[r].fetches = 1 => poller'[r].queries = poller[r].queries
          /\ poller'[r].fetches # poller[r].fetches => poller'[r].last = "done"]_vars

\* [pending, pending, done]: 3 queries, 1 fetch, the result delivered
C7_Witness ==
  \E r \in Reqs :
    /\ poller[r].last = "done" /\ poller[r].pendings = 2 /\ poller[r].queries = 3
    /\ poller[r].fetches = 1
    /\ poller[r].pc = "exit" /\ poller[r].err = Nil

\* C8: if the context eventually ends, a started Poller eventually reaches a
\* terminal state and exits, and the call blocked on the error sink
\* eventually returns, also when the job stays pending for ever.
C8_PollerTerminates ==
  \A r \in Reqs :
    /\ (poller[r].pc = "start") ~> (poller[r].state \in Terminal /\ poller[r].pc = "exit")
    /\ (call[r].pc = "recvErr") ~> Returned(r)

\* the job was still pending when the counters saturated, the context
\* ended, and the call returned
C8_Witness ==
  \E r \in Reqs :
    /\ poller[r].pendings = MaxPolls /\ poller[r].last = "pending"
    /\ poller[r].state = "Cancelled" /\ poller[r].pc = "exit"
    /\ Returned(r)

\* C9: of two concurrent calls each reads only what its own Poller and its
\* own forwarding task wrote, on channels of its own, for a job of its own.
C9_Isolation ==
  /\ \A r \in Reqs :
       /\ call[r].errFrom \in {0, r}
       /\ call[r].httpFrom \in {0, r}
       /\ caller[r].from \in {0, r}
       /\ call[r].retErr.job \in {0, call[r].jobID}
       /\ poller[r].pc # "none" =>
            /\ poller[r].jobID = call[r].jobID
            /\ poller[r].err.job \in {0, call[r].jobID}
            /\ poller[r].httpResp.body \in {0, call[r].jobID}
       /\ fwd[r].pc # "none" => fwd[r].resp.body = call[r].jobID
       /\ caller[r].pc = "got" => caller[r].got.body = call[r].jobID
  /\ \A r, s \in Reqs :
       (r # s /\ call[r].errChan # NilChan /\ call[s].errChan # NilChan) =>
         /\ {call[r].errChan, call[r].httpRespChan, call[r].respChan}
              \cap {call[s].errChan, call[s].httpRespChan, call[s].respChan} = {}
         /\ call[r].jobID # 0 => call[r].jobID # call[s].jobID

\* both calls wait on their error sinks while both Pollers are sending, one
\* a failure and one a success
C9_Witness ==
  \E r, s \in Reqs :
    /\ r # s
    /\ call[r].pc = "recvErr" /\ call[s].pc = "recvErr"
    /\ poller[r].pc = "sendErr" /\ poller[s].pc = "sendErr"
    /\ poller[r].err = Nil /\ poller[s].err # Nil

\* C10: in all four Ctx entry points a failed URL or option validation is
\* returned at once: no transport request, no job submission and no task.
ValidationErrors ==
  {"URL parameter is empty", "failed to parse URL", "URL is missing scheme",
   "URL is missing a host", "URL does not belong to host",
   "invalid domain parameter", "invalid locale parameter",
   "invalid user agent parameter", "invalid render parameter",
   "limit, pages and start_page parameters must be greater than 0",
   "invalid parse instructions"}

C10_ValidationBeforeNetwork ==
  /\ [](\A r \in Reqs :
          (Returned(r) /\ call[r].retErr.e \in ValidationErrors) =>
            /\ call[r].netOps = 0
            /\ call[r].jobID = 0
            /\ call[r].retChan = NilChan /\ call[r].retResp = NilResp
            /\ poller[r].pc = "none" /\ fwd[r].pc = "none")
  /\ [][\A r \in Reqs :
          (call[r].pc = "idle" /\ call'[r].pc # "idle") =>
            \/ /\ call'[r].pc = "returned"
               /\ call'[r].retErr.e \in ValidationErrors \cup {"error marshalling payload"}
               /\ call'[r].netOps = 0
            \/ /\ call'[r].pc \in {"req", "getJobID"}
               /\ call'[r].netOps = 1]_vars

\* an async URL call returned the error of the URL validation
C10_Witness ==
  \E r \in Reqs :
    /\ Returned(r) /\ call[r].kind = "AsyncUrl"
    /\ call[r].retErr = Err("URL does not belong to host", 0)

\* C11: the payload that is marshalled and submitted carries parse = true if
\* and only if parse instructions are present, in every entry point.
C11_ParseFlagSubmitted ==
  \A r \in Reqs :
    call[r].netOps > 0 =>
      /\ call[r].jsonPayload.parsing_instructions = call[r].customParserFlag
      /\ call[r].jsonPayload.parse = call[r].jsonPayload.parsing_instructions

\* C12: a submission whose context has ended before the job-creation round
\* trip completes returns an error: no job, no Poller, an error returned.
C12_SubmitHonoursContext ==
  [][\A r \in Reqs :
       (call[r].pc = "getJobID" /\ ctx[r] = "done" /\ call'[r].pc # "getJobID") =>
          /\ call'[r].pc = "returned"
          /\ call'[r].retErr # Nil
          /\ call'[r].jobID = 0
          /\ poller'[r].pc = "none"]_vars

PollerSucceeded(r) ==
  poller[r].pc = "exit" /\ poller[r].err = Nil /\ call[r].errFrom = r

\* C13 as claimed: when GetResp fails after the Poller signalled success,
\* the failure travels on the caller-facing channel: the call returns the
\* channel and reports no error on any other path.
C13_NormalizerErrorOnChannel ==
  \A r \in Reqs :
    (AsyncReturned(r) /\ PollerSucceeded(r)) =>
      (call[r].retErr = Nil /\ call[r].retChan # NilChan)

\* C13 as amended: when GetResp fails after the Poller signalled success,
\* the failure is not dropped: the call returns it as its error with a nil
\* channel, no forwarding task is started and nothing is ever written to
\* the caller-facing channel.
C13_NormalizerErrorReturned ==
  \A r \in Reqs :
    (AsyncReturned(r) /\ PollerSucceeded(r) /\ call[r].norm = "error") =>
      /\ call[r].retErr = Err("RespError", 0)
      /\ call[r].retChan = NilChan
      /\ fwd[r].pc = "none"
      /\ sent[call[r].respChan] = 0

\* the normalizer failed after the Poller had delivered the raw response
C13_Witness ==
  \E r \in Reqs :
    /\ AsyncReturned(r) /\ PollerSucceeded(r)
    /\ call[r].norm = "error"
    /\ sent[call[r].httpRespChan] = 1

\* the interval the options of call r ask for
EffectiveInterval(r) ==
  IF call[r].pollInterval <= 0 THEN DefaultPollInterval ELSE call[r].pollInterval

\* C14: for a zero or negative poll interval the Poller waits the default
\* interval between status queries, for a positive one it waits the
\* supplied value.
C14_EffectiveInterval ==
  /\ [](\A r \in Reqs :
          /\ poller[r].pc \notin {"none", "start"} =>
                poller[r].interval = EffectiveInterval(r)
          /\ poller[r].queries > 0 => poller[r].waited = EffectiveInterval(r))
  /\ [][\A r \in Reqs :
          (poller[r].pc = "wait" /\ poller'[r].pc = "query") =>
             poller'[r].waited = EffectiveInterval(r)]_vars

\* the Poller of a call with a negative interval has queried twice, and
\* has waited the default interval before its last query
C14_Witness ==
  \E r \in Reqs :
    /\ call[r].pollInterval < 0
    /\ poller[r].queries >= 2
    /\ poller[r].waited = DefaultPollInterval

\* the same with a positive interval
C14_WitnessSupplied ==
  \E r \in Reqs :
    /\ call[r].pollInterval > 0
    /\ poller[r].queries >= 2
    /\ poller[r].waited = call[r].pollInterval

\* C15: on done the handshake over the two unbuffered channels completes:
\* the call receives nil from the error sink first and the raw response
\* from the result sink afterwards, and the Poller exits after both writes.
C15_Handshake ==
  /\ [][\A r \in Reqs :
          poller[r].pc # "none" =>
            /\ (sent'[poller[r].httpRespChan] # sent[poller[r].httpRespChan]) =>
                 /\ sent[poller[r].errChan] = 1
                 /\ call[r].errFrom = r /\ call[r].pc = "recvResp"
                 /\ call'[r].httpFrom = r
                 /\ poller'[r].pc = "exit"
            /\ (sent'[poller[r].errChan] # sent[poller[r].errChan]) =>
                 sent[poller[r].httpRespChan] = 0]_vars
  /\ \A r \in Reqs :
       (poller[r].pc = "sendErr" /\ poller[r].err = Nil) ~>
          (/\ poller[r].pc = "exit"
           /\ sent[poller[r].errChan] = 1 /\ sent[poller[r].httpRespChan] = 1
           /\ Returned(r))

\* the handshake on done has completed
C15_Witness ==
  \E r \in Reqs :
    /\ poller[r].last = "done" /\ poller[r].pc = "exit"
    /\ call[r].errFrom = r /\ call[r].httpFrom = r
    /\ sent[poller[r].errChan] = 1 /\ sent[poller[r].httpRespChan] = 1

\* C16: after a successful submission the call does not return before the
\* Poller's terminal write to the error sink; when a channel is returned
\* the job is done, its raw result fetched and normalized, and exactly one
\* value was read from the error sink.
C16_ReturnAfterTerminalWrite ==
  \A r \in Reqs :
    (AsyncReturned(r) /\ call[r].jobID # 0) =>
      /\ sent[call[r].errChan] = 1
      /\ call[r].errFrom = r
      /\ poller[r].state \in Terminal
      /\ call[r].retChan # NilChan =>
           /\ poller[r].last = "done" /\ poller[r].fetched = "ok"
           /\ poller[r].pc = "exit"
           /\ sent[call[r].httpRespChan] = 1
           /\ call[r].norm = "ok"
           /\ fwd[r].pc # "none"
           /\ fwd[r].resp = Resp(call[r].jobID, call[r].customParserFlag,
                                 call[r].customParserFlag)

\* a channel was returned and nobody has received from it yet
C16_Witness ==
  \E r \in Reqs :
    /\ AsyncReturned(r) /\ call[r].retChan # NilChan
    /\ fwd[r].pc = "send" /\ caller[r].pc = "none"

UrlKinds == {"SyncUrl", "AsyncUrl"}

\* the five checks of a URL argument in the order of the claim, TRUE where
\* the URL passes, and the error of each
UrlChecks(u) ==
  << ~u.empty, u.parseOk, u.scheme # "", u.host # <<>>, Contains(u.host, YANDEX) >>

UrlCheckErrors ==
  << "URL parameter is empty", "failed to parse URL", "URL is missing scheme",
     "URL is missing a host", "URL does not belong to host" >>

FailingChecks(u) == { i \in 1..5 : ~UrlChecks(u)[i] }

\* what ValidateUrl gave the URL entry point that call r entered: one of
\* its errors if the call returned it, nil otherwise
ValidateUrlResult(r) ==
  IF Returned(r) /\ \E i \in 1..5 : call[r].retErr.e = UrlCheckErrors[i]
    THEN call[r].retErr.e ELSE "nil"

\* C17: ValidateUrl returns nil if and only if the URL is non-empty, parses,
\* has a scheme, has a host and the host matches the expected one; otherwise
\* it returns the error of the first check, in that order, that fails.
C17_ValidateUrl ==
  \A r \in Reqs :
    (call[r].pc # "idle" /\ call[r].kind \in UrlKinds) =>
      LET failing == FailingChecks(call[r].url) IN
      /\ ValidateUrlResult(r) = "nil" <=> failing = {}
      /\ failing # {} =>
           \E i \in failing :
             /\ \A k \in failing : i <= k
             /\ ValidateUrlResult(r) = UrlCheckErrors[i]
             /\ call[r].netOps = 0

\* a URL entry point was entered with a URL that fails the scheme check and
\* the host check, and has returned the error of the scheme check
C17_Witness ==
  \E r \in Reqs :
    /\ call[r].kind \in UrlKinds /\ Returned(r)
    /\ {3, 4} \subseteq FailingChecks(call[r].url)
    /\ call[r].retErr = Err("URL is missing scheme", 0)

\* a URL entry point went on with a URL whose host only contains the
\* expected host
C17_WitnessPassed ==
  \E r \in Reqs :
    /\ call[r].kind \in UrlKinds /\ call[r].netOps > 0
    /\ FailingChecks(call[r].url) = {}
    /\ Head(call[r].url.host) = "x"

\* C18: the forwarding task ends if and only if the caller receives: the
\* call returns the channel without waiting for the receive, and until the
\* caller receives the task stays blocked on its send, whatever happens to
\* the context.
C18_ForwarderBlocksUntilReceive ==
  /\ [](\A r \in Reqs :
          /\ fwd[r].pc = "exit" <=> caller[r].pc = "got"
          /\ (Returned(r) /\ call[r].retChan # NilChan /\ caller[r].pc # "got") =>
               fwd[r].pc = "send")
  /\ [][\A r \in Reqs :
          (fwd[r].pc = "send" /\ fwd'[r].pc # "send") =>
             (caller[r].pc = "recv" /\ caller'[r].pc = "got")]_vars
  /\ \A r \in Reqs : (caller[r].pc = "recv") ~> (fwd[r].pc = "exit")

\* the context has ended, the channel was returned, nobody receives and the
\* forwarding task is still blocked
C18_Witness ==
  \E r \in Reqs :
    /\ Returned(r) /\ call[r].retChan # NilChan
    /\ ctx[r] = "done" /\ caller[r].pc = "none"
    /\ fwd[r].pc = "send"

\* call r is an async call that has returned its channel
ChannelReturned(r) == AsyncReturned(r) /\ call[r].retChan # NilChan

\* C19: once an async entry point has returned a channel, the end of the
\* context (the deferred cancel of the default-timeout entry points
\* included) changes nothing of the outcome: the value the caller receives
\* is the normalized result computed before the return, and the request
\* has no error.
C19_CancelAfterReturn ==
  /\ [][\A r \in Reqs :
          /\ ChannelReturned(r) =>
                /\ call'[r] = call[r]
                /\ poller'[r] = poller[r]
                /\ fwd'[r].resp = fwd[r].resp
                /\ ctx'[r] # ctx[r] =>
                      (fwd' = fwd /\ caller' = caller /\ sent' = sent)
          /\ (ChannelReturned(r)' /\ ~ChannelReturned(r)) =>
                /\ ctx'[r] = (IF call'[r].wrapper THEN "done" ELSE ctx[r])
                /\ fwd'[r].resp = Resp(call'[r].jobID, call'[r].customParserFlag,
                                       call'[r].customParserFlag)]_vars
  /\ [](\A r \in Reqs :
          ChannelReturned(r) =>
            /\ call[r].retErr = Nil
            /\ poller[r].err = Nil
            /\ caller[r].pc = "got" =>
                 caller[r].got = Resp(call[r].jobID, call[r].customParserFlag,
                                      call[r].customParserFlag))
  /\ \A r \in Reqs :
       (ChannelReturned(r) /\ ctx[r] = "done" /\ caller[r].pc = "recv") ~>
          (caller[r].pc = "got" /\ call[r].retErr = Nil)

\* a call made through a default-timeout entry point returned its channel,
\* the deferred cancel ended the context, and the caller then received the
\* normalized result
C19_Witness ==
  \E r \in Reqs :
    /\ ChannelReturned(r) /\ call[r].wrapper
    /\ ctx[r] = "done"
    /\ caller[r].pc = "got" /\ caller[r].got.body = call[r].jobID

\* a call made through a Ctx entry point returned its channel with the
\* context alive; the context ended before the caller received
C19_WitnessCtx ==
  \E r \in Reqs :
    /\ ChannelReturned(r) /\ ~call[r].wrapper
    /\ ctx[r] = "done"
    /\ caller[r].pc = "got" /\ caller[r].got.body = call[r].jobID

====
